---- MODULE Spec2Model ----
(***************************************************************************)
(* Model of src/git_subtree.py: the GitSubtree class (constructor, the     *)
(* operations add, merge, split, pull, push, the serializer to_args and    *)
(* the private __run) and the module's __main__ block.                     *)
(*                                                                         *)
(* Python values are records tagged with their type, so that a token       *)
(* sequence can hold a None next to strings, as the code's tuples can.     *)
(***************************************************************************)
EXTENDS Integers, Sequences, FiniteSets, TLC

VARIABLES
    mode,      \* "import": a program uses the class; "script": python git_subtree.py ...
    self,      \* the GitSubtree instance's attributes (NoInstance in script mode)
    call,      \* the operation call in progress / just completed, or NoCall
    run,       \* the subprocess.run invocation made by that call, or NoRun
    result,    \* how that call completed: returned value or raised exception
    ncalls,    \* number of operation calls made so far
    spawned,   \* call numbers for which a child process was created, in order
    stdout,    \* lines written to this process's own stdout
    main_pc,   \* position of the __main__ block
    cmdline    \* sys.argv[1:] of the script (<<>> in import mode)

vars == <<mode, self, call, run, result, ncalls, spawned, stdout, main_pc, cmdline>>

----------------------------------------------------------------------------
(* Bounds *)

MaxCalls == 2

----------------------------------------------------------------------------
(* Python values *)

None == [t |-> "NoneType"]
Str(s) == [t |-> "str", s |-> s]
Bool(b) == [t |-> "bool", b |-> b]

IsStr(v) == v.t = "str"

\* bool(value), as the `if value:` of to_args evaluates it
Truthy(v) ==
    CASE v.t = "NoneType" -> FALSE
      [] v.t = "bool" -> v.b
      [] v.t = "str" -> v.s # ""

\* f"{value}"
Format(v) ==
    CASE v.t = "NoneType" -> "None"
      [] v.t = "bool" -> (IF v.b THEN "True" ELSE "False")
      [] v.t = "str" -> v.s

\* d[k] = v on an insertion-ordered dict held as a sequence of <<key, value>>
DictSet(d, k, v) ==
    IF \E i \in 1..Len(d) : d[i][1] = k
    THEN [i \in 1..Len(d) |-> IF d[i][1] = k THEN <<k, v>> ELSE d[i]]
    ELSE Append(d, <<k, v>>)

\* d.update(u)
RECURSIVE DictUpdate(_, _)
DictUpdate(d, u) ==
    IF u = <<>> THEN d
    ELSE DictUpdate(DictSet(d, Head(u)[1], Head(u)[2]), Tail(u))

----------------------------------------------------------------------------
(* GitSubtree.to_args *)

\* OptionTokens appending the payload before the option's name
OptionTokens_payload_first(key, value) ==
    IF Truthy(value)
    THEN LET short == Len(key) > 1
         IN  (IF value # Bool(TRUE)
              THEN <<Str((IF short THEN " " ELSE "=") \o Format(value))>>
              ELSE <<>>)
             \o <<Str(IF short THEN "--" \o key ELSE "-" \o key)>>
    ELSE <<>>

\* OptionTokens testing `value is not None` instead of the value's truth
OptionTokens_not_none(key, value) ==
    IF value # None
    THEN LET short == Len(key) > 1
         IN  <<Str(IF short THEN "--" \o key ELSE "-" \o key)>>
             \o (IF value # Bool(TRUE)
                 THEN <<Str((IF short THEN " " ELSE "=") \o Format(value))>>
                 ELSE <<>>)
    ELSE <<>>

\* OptionTokens with the short/long test off by one: every name gets `--`
OptionTokens_always_long(key, value) ==
    IF Truthy(value)
    THEN LET short == Len(key) >= 1
         IN  <<Str(IF short THEN "--" \o key ELSE "-" \o key)>>
             \o (IF value # Bool(TRUE)
                 THEN <<Str((IF short THEN " " ELSE "=") \o Format(value))>>
                 ELSE <<>>)
    ELSE <<>>

\* one iteration of the loop over options.items(): the tokens added to args
OptionTokens(key, value) ==
    IF Truthy(value)
    THEN LET short == Len(key) > 1
         IN  <<Str(IF short THEN "--" \o key ELSE "-" \o key)>>
             \o (IF value # Bool(TRUE)
                 THEN <<Str((IF short THEN " " ELSE "=") \o Format(value))>>
                 ELSE <<>>)
    ELSE <<>>

RECURSIVE OptionLoop(_, _)
OptionLoop(items, args) ==
    IF items = <<>> THEN args
    ELSE OptionLoop(Tail(items),
                    args \o OptionTokens(Head(items)[1], Head(items)[2]))

\* the instance settings taken as the base dict and updated with the options
UpdatedOptions_instance_first(slf, options) ==
    DictUpdate(<< <<"q", Bool(slf.quiet)>>,
                  <<"d", Bool(slf.debug)>>,
                  <<"P", slf.prefix>> >>, options)

\* the dict after options.update({"q": ..., "d": ..., "P": ...})
UpdatedOptions(slf, options) ==
    DictUpdate(options, << <<"q", Bool(slf.quiet)>>,
                           <<"d", Bool(slf.debug)>>,
                           <<"P", slf.prefix>> >>)

\* to_args splitting the configured command into words, as a shell would
to_args_command_split(slf, command, options, args) ==
    (IF slf.command = "git subtree"
     THEN <<Str("git"), Str("subtree")>> ELSE <<Str(slf.command)>>)
        \o <<Str(command)>>
        \o OptionLoop(UpdatedOptions(slf, options), args)

\* to_args putting the option tokens before the positional arguments
to_args_flags_first(slf, command, options, args) ==
    <<Str(slf.command), Str(command)>>
        \o OptionLoop(UpdatedOptions(slf, options), <<>>) \o args

to_args(slf, command, options, args) ==
    <<Str(slf.command), Str(command)>>
        \o OptionLoop(UpdatedOptions(slf, options), args)

----------------------------------------------------------------------------
(* subprocess.run as GitSubtree.__run uses it *)

NoCall == [op |-> "none"]
NoRun == [made |-> FALSE]
NoResult == [kind |-> "none"]
Return(v) == [kind |-> "return", value |-> v]
Raise(e) == [kind |-> "raise", exc |-> e]

\* what the environment decides about one launch: whether the executable
\* named by argv[0] is found, and the exit status of the tool if it runs
ExitCodes == {0, 1}
Env == {[found |-> FALSE, status |-> 0]}
           \cup {[found |-> TRUE, status |-> s] : s \in ExitCodes}

\* the external tool's stdout: after a successful split, one commit ID
CommitId == "c0ffee"
ToolOutput(argv, status) ==
    IF Len(argv) >= 2 /\ argv[2] = Str("split") /\ status = 0
    THEN <<CommitId>> ELSE <<>>

\* subprocess.run called with check=True: a non-zero status raises
subprocess_run_check(argv, cwd, out, err, env) ==
    LET base == [made |-> TRUE, argv |-> argv, cwd |-> cwd,
                 stdout |-> out, stderr |-> err]
    IN  IF \E i \in 1..Len(argv) : ~IsStr(argv[i])
        THEN [run |-> base @@ [child |-> "none", returncode |-> -1, captured |-> <<>>],
              raised |-> "TypeError", printed |-> <<>>]
        ELSE IF ~env.found
        THEN [run |-> base @@ [child |-> "exec_failed", returncode |-> -1, captured |-> <<>>],
              raised |-> "FileNotFoundError", printed |-> <<>>]
        ELSE [run |-> base @@ [child |-> "exited", returncode |-> env.status,
                               captured |-> <<>>],
              raised |-> IF env.status # 0 THEN "CalledProcessError" ELSE "",
              printed |-> <<>>]

\* subprocess.run(argv, cwd=cwd, stdout=out, stderr=err), check left at its
\* default: a non-string in argv raises TypeError before any process exists;
\* a missing executable raises FileNotFoundError from the forked child's
\* exec; otherwise the child runs to its exit status and a CompletedProcess
\* is returned.  With out = "PIPE" the child's stdout is captured into the
\* CompletedProcess, otherwise it is inherited and reaches our stdout.
subprocess_run(argv, cwd, out, err, env) ==
    LET base == [made |-> TRUE, argv |-> argv, cwd |-> cwd,
                 stdout |-> out, stderr |-> err]
    IN  IF \E i \in 1..Len(argv) : ~IsStr(argv[i])
        THEN [run |-> base @@ [child |-> "none", returncode |-> -1, captured |-> <<>>],
              raised |-> "TypeError", printed |-> <<>>]
        ELSE IF ~env.found
        THEN [run |-> base @@ [child |-> "exec_failed", returncode |-> -1, captured |-> <<>>],
              raised |-> "FileNotFoundError", printed |-> <<>>]
        ELSE LET text == ToolOutput(argv, env.status)
             IN  [run |-> base @@ [child |-> "exited", returncode |-> env.status,
                                   captured |-> IF out = "PIPE" THEN text ELSE <<>>],
                  raised |-> "",
                  printed |-> IF out = "PIPE" THEN <<>> ELSE text]

\* __run without cwd and without the pipes: the child inherits both
run_inherit(slf, command, options, args, env) ==
    LET sp == subprocess_run(to_args(slf, command, options, args),
                             ".", "inherit", "inherit", env)
    IN  [run |-> sp.run,
         result |-> IF sp.raised # "" THEN Raise(sp.raised) ELSE Return(None),
         printed |-> sp.printed]

\* GitSubtree.__run: the CompletedProcess is dropped, nothing is returned
run_(slf, command, options, args, env) ==
    LET sp == subprocess_run(to_args(slf, command, options, args),
                             slf.repository_path, "PIPE", "PIPE", env)
    IN  [run |-> sp.run,
         result |-> IF sp.raised # "" THEN Raise(sp.raised) ELSE Return(None),
         printed |-> sp.printed]

----------------------------------------------------------------------------
(* The operations: each body is one self.__run(command, options, *args) *)

Request(command, options, args) ==
    [command |-> command, options |-> options, args |-> args]

\* the class attribute `add` is the second definition (the first is replaced)
add(repository, remote_ref, squash, message) ==
    Request("add", << <<"squash", squash>>, <<"m", message>> >>,
            <<repository, remote_ref>>)

merge(local_commit, repository, squash, message) ==
    Request("merge", << <<"squash", squash>>, <<"m", message>> >>,
            <<local_commit, repository>>)

\* the first definition of split, replaced by the second in the class
split_first(local_commit, repository, annotate, branch, ignore_joins, onto) ==
    Request("split",
            << <<"annotate", annotate>>, <<"b", branch>>,
               <<"ignore-joins", ignore_joins>>, <<"onto", onto>> >>,
            <<local_commit, repository>>)

\* split with the values of branch and onto under each other's key
split_branch_onto_swapped(local_commit, repository, annotate, branch, ignore_joins, onto, rejoin, squash, message) ==
    Request("split",
            << <<"annotate", annotate>>, <<"b", onto>>,
               <<"ignore-joins", ignore_joins>>, <<"onto", branch>>,
               <<"rejoin", rejoin>>, <<"squash", squash>>, <<"m", message>> >>,
            <<local_commit, repository>>)

\* the class attribute `split` is the second definition
split(local_commit, repository, annotate, branch, ignore_joins, onto, rejoin, squash, message) ==
    Request("split",
            << <<"annotate", annotate>>, <<"b", branch>>,
               <<"ignore-joins", ignore_joins>>, <<"onto", onto>>,
               <<"rejoin", rejoin>>, <<"squash", squash>>, <<"m", message>> >>,
            <<local_commit, repository>>)

\* pull forgetting to pass squash on
pull_without_squash(repository, remote_ref, squash, message) ==
    Request("pull", << <<"m", message>> >>, <<repository, remote_ref>>)

\* pull issuing the subcommand of the method it was copied from
pull_as_merge(repository, remote_ref, squash, message) ==
    Request("merge", << <<"m", message>>, <<"squash", squash>> >>,
            <<repository, remote_ref>>)

pull(repository, remote_ref, squash, message) ==
    Request("pull", << <<"m", message>>, <<"squash", squash>> >>,
            <<repository, remote_ref>>)

\* the first definition of push, replaced by the second in the class
push_first(repository, local_commit, remote_ref, annotate, branch, ignore_joins, onto) ==
    Request("push",
            << <<"annotate", annotate>>, <<"b", branch>>,
               <<"ignore-joins", ignore_joins>>, <<"onto", onto>> >>,
            <<repository, local_commit, remote_ref>>)

\* the class attribute `push` is the second definition
push(repository, local_commit, remote_ref, annotate, branch, ignore_joins, onto, rejoin, squash, message) ==
    Request("push",
            << <<"annotate", annotate>>, <<"b", branch>>,
               <<"ignore-joins", ignore_joins>>, <<"onto", onto>>,
               <<"rejoin", rejoin>>, <<"squash", squash>>, <<"m", message>> >>,
            <<repository, local_commit, remote_ref>>)

----------------------------------------------------------------------------
(* Inputs *)

Bools == {Bool(FALSE), Bool(TRUE)}
Commits == {Str("HEAD")}
Repositories == {Str("origin")}
Refs == {Str("main")}
Messages == {None, Str(""), Str("msg")}
Annotations == {None, Str("ann")}
Branches == {None, Str("br")}
Ontos == {None, Str("abc123")}
Optional(S) == {None} \cup S

Instances ==
    [repository_path : {"/repo"}, command : {"git subtree"},
     prefix : {None, Str("lib")}, quiet : BOOLEAN, debug : BOOLEAN]
        \cup {[repository_path |-> "/other", command |-> "git-subtree",
               prefix |-> Str("lib"), quiet |-> FALSE, debug |-> FALSE]}
NoInstance == [repository_path |-> "", command |-> "", prefix |-> None,
               quiet |-> FALSE, debug |-> FALSE]

\* option mappings and arguments for direct calls of the public to_args
DirectOptions ==
    { <<>>,
      << <<"squash", Bool(TRUE)>>, <<"m", Str("msg")>> >>,
      << <<"q", Bool(TRUE)>>, <<"annotate", Str("ann")>>, <<"b", None>> >> }
DirectArgs == { <<>>, <<Str("HEAD")>> }

\* command lines of the script: a subcommand (or none, or an unknown one)
\* followed by up to MaxPositionals positional words
MaxPositionals == 3
Subcommands == {"add", "merge", "split", "pull", "push"}
RECURSIVE Words(_)
Words(n) == IF n = 0 THEN <<>> ELSE Append(Words(n - 1), "x")
CmdLines ==
    {<<>>} \cup { <<c>> \o Words(n) : c \in Subcommands \cup {"bogus"},
                                      n \in 0..MaxPositionals }

----------------------------------------------------------------------------
(* State machine *)

Init ==
    /\ \/ mode = "import" /\ self \in Instances
          /\ cmdline = <<>> /\ main_pc = "none"
       \/ mode = "script" /\ self = NoInstance
          /\ cmdline \in CmdLines /\ main_pc = "start"
    /\ call = NoCall
    /\ run = NoRun
    /\ result = NoResult
    /\ ncalls = 0
    /\ spawned = <<>>
    /\ stdout = <<>>

\* a call of operation op whose arguments bind, so that its body runs
Invoke(op, params, req) ==
    /\ mode = "import"
    /\ call = NoCall
    /\ ncalls < MaxCalls
    /\ \E env \in Env :
          LET r == run_(self, req.command, req.options, req.args, env)
          IN  /\ call' = [op |-> op, params |-> params, args |-> req.args,
                       options |-> req.options]
              /\ run' = r.run
              /\ result' = r.result
              /\ stdout' = stdout \o r.printed
              /\ spawned' = IF r.run.child # "none"
                            THEN Append(spawned, ncalls + 1) ELSE spawned
    /\ ncalls' = ncalls + 1
    /\ UNCHANGED <<mode, self, main_pc, cmdline>>

\* the keyword parameters of a split or push call, by parameter name
SplitParams(annotate, branch, ignore_joins, onto, rejoin, squash, message) ==
    << <<"annotate", annotate>>, <<"branch", branch>>,
       <<"ignore_joins", ignore_joins>>, <<"onto", onto>>,
       <<"rejoin", rejoin>>, <<"squash", squash>>, <<"message", message>> >>

\* add(repository, remote_ref, squash=..., message=...)
Add ==
    \E repository \in Repositories, remote_ref \in Refs,
       squash \in Bools, message \in Messages :
        Invoke("add", << <<"squash", squash>>, <<"message", message>> >>,
               add(repository, remote_ref, squash, message))

\* add(local_commit, squash=..., message=...): the documented one-argument
\* form.  The name `add` is bound to the two-argument definition, so the
\* call fails to bind remote_ref and raises TypeError before any body runs.
AddLocalCommit ==
    /\ mode = "import"
    /\ call = NoCall
    /\ ncalls < MaxCalls
    /\ \E local_commit \in Commits, squash \in Bools, message \in Messages :
          call' = [op |-> "add",
                   params |-> << <<"squash", squash>>, <<"message", message>> >>,
                   args |-> <<local_commit>>,
                   options |-> << <<"squash", squash>>, <<"m", message>> >>]
    /\ run' = NoRun
    /\ result' = Raise("TypeError")
    /\ ncalls' = ncalls + 1
    /\ UNCHANGED <<mode, self, spawned, stdout, main_pc, cmdline>>

Merge ==
    \E local_commit \in Commits, repository \in Optional(Repositories),
       squash \in Bools, message \in Messages :
        Invoke("merge", << <<"squash", squash>>, <<"message", message>> >>,
               merge(local_commit, repository, squash, message))

Split ==
    \E local_commit \in Optional(Commits), repository \in Optional(Repositories),
       annotate \in Annotations, branch \in Branches, ignore_joins \in Bools,
       onto \in Ontos, rejoin \in Bools, squash \in Bools,
       message \in Messages \ {Str("")} :
        Invoke("split",
               SplitParams(annotate, branch, ignore_joins, onto, rejoin, squash, message),
               split(local_commit, repository, annotate, branch,
                     ignore_joins, onto, rejoin, squash, message))

Pull ==
    \E repository \in Repositories, remote_ref \in Refs,
       squash \in Bools, message \in Messages :
        Invoke("pull", << <<"squash", squash>>, <<"message", message>> >>,
               pull(repository, remote_ref, squash, message))

Push ==
    \E repository \in Repositories, local_commit \in Optional(Commits),
       remote_ref \in Optional(Refs),
       annotate \in Annotations, branch \in Branches, ignore_joins \in Bools,
       onto \in Ontos, rejoin \in Bools, squash \in Bools,
       message \in Messages \ {Str("")} :
        Invoke("push",
               SplitParams(annotate, branch, ignore_joins, onto, rejoin, squash, message),
               push(repository, local_commit, remote_ref, annotate,
                    branch, ignore_joins, onto, rejoin, squash, message))

\* to_args storing its command parameter in the instance
ToArgs_sets_command ==
    /\ mode = "import"
    /\ call = NoCall
    /\ \E command \in Subcommands, options \in DirectOptions, args \in DirectArgs :
          /\ call' = [op |-> "to_args", params |-> <<>>, args |-> args,
                      options |-> options, command |-> command]
          /\ self' = [self EXCEPT !.command = command]
          /\ result' = Return([t |-> "tuple",
                               items |-> to_args(self', command, options, args)])
    /\ run' = NoRun
    /\ UNCHANGED <<mode, ncalls, spawned, stdout, main_pc, cmdline>>

\* a direct call of the public to_args: returns the tuple, launches nothing
ToArgs ==
    /\ mode = "import"
    /\ call = NoCall
    /\ \E command \in Subcommands, options \in DirectOptions, args \in DirectArgs :
          /\ call' = [op |-> "to_args", params |-> <<>>, args |-> args,
                      options |-> options, command |-> command]
          /\ result' = Return([t |-> "tuple",
                               items |-> to_args(self, command, options, args)])
    /\ run' = NoRun
    /\ UNCHANGED <<mode, self, ncalls, spawned, stdout, main_pc, cmdline>>

\* the caller goes on after a call: the call's frame (its options dict, its
\* args tuple, the CompletedProcess) is gone
Returned ==
    /\ call # NoCall
    /\ call' = NoCall
    /\ run' = NoRun
    /\ result' = NoResult
    /\ UNCHANGED <<mode, self, ncalls, spawned, stdout, main_pc, cmdline>>

\* numbers of positional words each subparser accepts.  The add subparser
\* holds local-commit (nargs="?") in a required mutually exclusive group and
\* repository, remote-ref as plain positionals, so it takes all three words.
Arity(c) ==
    CASE c = "add" -> {3}
      [] c = "merge" -> {1, 2}
      [] c = "split" -> {0, 1, 2}
      [] c = "pull" -> {2}
      [] c = "push" -> {2}

\* parser.parse_args() succeeds (otherwise it exits with status 2)
ParseOk(argv) ==
    \/ argv = <<>>
    \/ /\ argv # <<>>
       /\ argv[1] \in Subcommands
       /\ Len(argv) - 1 \in Arity(argv[1])

\* the __main__ block: build the parser, parse the command line, end
Main ==
    /\ mode = "script"
    /\ main_pc = "start"
    /\ main_pc' = IF ParseOk(cmdline) THEN "done" ELSE "exit2"
    /\ UNCHANGED <<mode, self, call, run, result, ncalls, spawned, stdout, cmdline>>

Next ==
    \/ Add
    \/ AddLocalCommit
    \/ Merge
    \/ Split
    \/ Pull
    \/ Push
    \/ ToArgs
    \/ Returned
    \/ Main

Spec == Init /\ [][Next]_vars

TypeOK ==
    /\ mode \in {"import", "script"}
    /\ ncalls \in 0..MaxCalls
    /\ main_pc \in {"none", "start", "done", "exit2"}

----------------------------------------------------------------------------
(* Vocabulary of the properties *)

Range(seq) == {seq[i] : i \in DOMAIN seq}
Count(seq, x) == Cardinality({i \in DOMAIN seq : seq[i] = x})

\* the token sequence of the current call: the one handed to subprocess.run,
\* or the one a direct to_args call returned
HasTokens == run.made \/ (call.op = "to_args" /\ result.kind = "return")
Produced == IF run.made THEN run.argv
            ELSE IF call.op = "to_args" /\ result.kind = "return"
                 THEN result.value.items ELSE <<>>
Positionals == SubSeq(Produced, 3, 2 + Len(call.args))
FlagPart == SubSeq(Produced, 3 + Len(call.args), Len(Produced))

\* the option mapping of the current call: the operation's own options and
\* the three instance settings, which replace own options of the same name
InstanceOptions ==
    { <<"q", Bool(self.quiet)>>, <<"d", Bool(self.debug)>>, <<"P", self.prefix>> }
TheOptions ==
    { call.options[i] : i \in {j \in DOMAIN call.options :
                                  call.options[j][1] \notin {"q", "d", "P"}} }
        \cup InstanceOptions

Falsy(v) == v \in {Bool(FALSE), None, Str("")}
IsFlagValue(v) == v = Bool(TRUE)
ShortName(k) == Str("-" \o k)
LongName(k) == Str("--" \o k)
NameToken(k) == IF Len(k) = 1 THEN ShortName(k) ELSE LongName(k)

OptionNames == {"squash", "m", "annotate", "b", "ignore-joins", "onto",
                "rejoin", "q", "d", "P"}
Payloads == {"msg", "ann", "br", "abc123", "lib"}
\* every token an option can give rise to: a name, or a payload with its joiner
FlagTokens ==
    {ShortName(k) : k \in OptionNames} \cup {LongName(k) : k \in OptionNames}
        \cup {Str(" " \o v) : v \in Payloads} \cup {Str("=" \o v) : v \in Payloads}

----------------------------------------------------------------------------
(* Properties *)

\* C1: the token sequence handed to the child-process launcher is
\* [configured command, subcommand, positional arguments in the order the
\* operation lists them, flag tokens]; no positional follows a flag token.
C1_ArgvShape ==
    run.made =>
        /\ Len(run.argv) >= 2 + Len(call.args)
        /\ run.argv[1] = Str(self.command)
        /\ run.argv[2] = Str(call.op)
        /\ Positionals = call.args
        /\ \A j \in DOMAIN FlagPart : FlagPart[j] \in FlagTokens
        /\ \A j \in DOMAIN FlagPart : FlagPart[j] \notin Range(call.args)

C1_Witness ==
    /\ run.made
    /\ run.child = "exited"
    /\ Len(call.args) >= 2
    /\ Len(FlagPart) >= 3

\* C2: a truthy option gives exactly one name token, `--name` for a name
\* longer than one character and `-name` for a one-character name; a falsy
\* option (False, None, "") gives no token at all.
C2_NameTokens ==
    HasTokens =>
        \A o \in TheOptions :
            /\ Count(FlagPart, NameToken(o[1])) = IF Falsy(o[2]) THEN 0 ELSE 1
            /\ Count(FlagPart, ShortName(o[1])) + Count(FlagPart, LongName(o[1]))
                   = IF Falsy(o[2]) THEN 0 ELSE 1
            /\ Falsy(o[2]) =>
                   \A j \in DOMAIN FlagPart :
                       FlagPart[j] \notin {Str(" " \o Format(o[2])), Str("=" \o Format(o[2])),
                                           Str(Format(o[2]))}

C2_Witness ==
    /\ run.made
    /\ \E o \in TheOptions : ~Falsy(o[2]) /\ Len(o[1]) > 1
    /\ \E o \in TheOptions : ~Falsy(o[2]) /\ Len(o[1]) = 1
    /\ \E o \in TheOptions : o[2] = Str("")
    /\ \E o \in TheOptions : o[2] = None
    /\ \E o \in TheOptions : o[2] = Bool(FALSE)

\* the options of the current call that carry a payload: truthy, not True
PayloadOptions == {o \in TheOptions : ~Falsy(o[2]) /\ ~IsFlagValue(o[2])}

\* name token and value as two adjacent tokens, or as one token with a space
SpaceSeparated(k, v) ==
    \/ \E j \in DOMAIN FlagPart :
          /\ j + 1 \in DOMAIN FlagPart
          /\ FlagPart[j] = NameToken(k)
          /\ FlagPart[j + 1] = Str(Format(v))
    \/ Str(NameToken(k).s \o " " \o Format(v)) \in Range(FlagPart)

\* name and value in one token, joined by `=`
EqualsJoined(k, v) ==
    Str(NameToken(k).s \o "=" \o Format(v)) \in Range(FlagPart)

\* C3: the value of a truthy non-boolean option follows its name
\* space-separated in short form (`-m <message>`) and `=`-joined in long
\* form (`--annotate=<value>`).
C3_PayloadJoin ==
    HasTokens =>
        \A o \in PayloadOptions :
            IF Len(o[1]) = 1 THEN SpaceSeparated(o[1], o[2])
                             ELSE EqualsJoined(o[1], o[2])

\* C4: every element of the token sequence handed to the launcher is a
\* string; an optional positional parameter left at its default adds no token.
C4_AllTokensAreStrings ==
    run.made =>
        /\ \A i \in DOMAIN run.argv : IsStr(run.argv[i])
        /\ Cardinality({i \in 3..Len(run.argv) : run.argv[i] \notin FlagTokens})
               = Cardinality({i \in DOMAIN call.args : call.args[i] # None})

\* C5: every token sequence produced by an operation contains the `-P`
\* option carrying the instance's prefix, also for the default prefix.
C5_PrefixAlwaysPresent ==
    run.made =>
        \E j \in DOMAIN FlagPart :
            /\ FlagPart[j] = Str("-P")
            /\ IsStr(self.prefix) =>
                   /\ j + 1 \in DOMAIN FlagPart
                   /\ FlagPart[j + 1] \in {Str(self.prefix.s), Str("=" \o self.prefix.s),
                                           Str(" " \o self.prefix.s)}

\* C6: add called with a single local_commit issues `add` with that commit
\* as the only positional; add called with repository and remote_ref issues
\* `add` with those two positionals in that order.
C6_AddBothForms ==
    (call.op = "add" /\ result # NoResult) =>
        /\ run.made
        /\ run.argv[2] = Str("add")
        /\ Positionals = call.args
        /\ Len(call.args) \in {1, 2}

\* C7: the script run with a valid subcommand and valid arguments ends up
\* launching the external executable with the translated argument list.
C7_ScriptLaunches ==
    (mode = "script" /\ main_pc = "done" /\ cmdline # <<>>) => spawned # <<>>

\* C8: each operation call launches exactly one child process: after N
\* calls exactly N children were launched, one per call, in call order.
C8_OneChildPerCall ==
    spawned = [i \in 1..ncalls |-> i]

\* C9: whatever exit status the external tool ends with, the operation
\* raises nothing, returns None, and leaves the instance as it was.
C9_ExitStatusIgnored ==
    [][(run'.made /\ run'.child = "exited") =>
           (result' = Return(None) /\ self' = self)]_vars

C9_Witness ==
    /\ run.made
    /\ run.child = "exited"
    /\ run.returncode # 0
    /\ result = Return(None)

HasParam(p) == \E i \in DOMAIN call.params : call.params[i][1] = p
Param(p) ==
    call.params[CHOOSE i \in DOMAIN call.params : call.params[i][1] = p][2]

\* C11: the subcommand token of every child process launched by a public
\* operation is one of add, merge, split, pull, push and is the name of the
\* operation that was called.
C11_SubcommandIsOperation ==
    run.made =>
        /\ IsStr(run.argv[2])
        /\ run.argv[2].s \in Subcommands
        /\ run.argv[2].s = call.op

C11_Witness ==
    /\ run.made
    /\ run.child = "exited"
    /\ call.op = "pull"

\* the flag each parameter stands for
FlagOf(p) ==
    CASE p = "squash" -> Str("--squash")
      [] p = "message" -> Str("-m")
      [] p = "annotate" -> Str("--annotate")
      [] p = "branch" -> Str("-b")
      [] p = "ignore_joins" -> Str("--ignore-joins")
      [] p = "onto" -> Str("--onto")
      [] p = "rejoin" -> Str("--rejoin")
InstanceFlags == {Str("-q"), Str("-d"), Str("-P")}
SplitOnlyFlags == {Str("--annotate"), Str("-b"), Str("--ignore-joins"),
                   Str("--onto"), Str("--rejoin")}
AllNameTokens ==
    {ShortName(k) : k \in OptionNames} \cup {LongName(k) : k \in OptionNames}

\* C12: every parameter maps to its one flag name (squash -> --squash,
\* message -> -m, annotate -> --annotate, branch -> -b, ignore_joins ->
\* --ignore-joins, onto -> --onto, rejoin -> --rejoin, quiet -> -q,
\* debug -> -d, prefix -> -P), an operation emits only flags of parameters it
\* accepts, and add, merge and pull never emit the split-only flags.
C12_ParameterFlags ==
    run.made =>
        /\ \A i \in DOMAIN call.params :
              Count(FlagPart, FlagOf(call.params[i][1]))
                  = IF Falsy(call.params[i][2]) THEN 0 ELSE 1
        /\ Count(FlagPart, Str("-q")) = IF self.quiet THEN 1 ELSE 0
        /\ Count(FlagPart, Str("-d")) = IF self.debug THEN 1 ELSE 0
        /\ Count(FlagPart, Str("-P")) = IF Falsy(self.prefix) THEN 0 ELSE 1
        /\ \A j \in DOMAIN FlagPart :
              FlagPart[j] \in AllNameTokens =>
                  FlagPart[j] \in InstanceFlags
                      \cup {FlagOf(call.params[i][1]) : i \in DOMAIN call.params}
        /\ call.op \in {"add", "merge", "pull"} =>
              \A j \in DOMAIN FlagPart : FlagPart[j] \notin SplitOnlyFlags

C12_Witness ==
    /\ run.made
    /\ call.op = "split"
    /\ \A i \in DOMAIN call.params : ~Falsy(call.params[i][2])
    /\ self.quiet /\ self.debug /\ ~Falsy(self.prefix)

\* the flag tokens merge emits on this instance for the squash and message
\* of the current call
MergeFlags ==
    OptionLoop(UpdatedOptions(self,
                   merge(Str("HEAD"), None, Param("squash"), Param("message")).options),
               <<>>)

C14_SquashMessageOnlyWithRejoin ==
    (run.made /\ call.op \in {"split", "push"} /\ Param("rejoin") # Bool(TRUE)) =>
        /\ Str("--squash") \notin Range(FlagPart)
        /\ Str("-m") \notin Range(FlagPart)

\* the subcommand of the current call
Subcommand == IF call.op = "to_args" THEN call.command ELSE call.op
\* the words of the default command
DefaultCommand == "git subtree"
DefaultCommandWords == {"git", "subtree"}

\* C15: the instance's command is the first token, whole: with the default
\* command the first token is the one string "git subtree", none of its words
\* is a token of its own, and the subcommand is the second token.
C15_CommandIsOneToken ==
    HasTokens =>
        /\ Produced[1] = Str(self.command)
        /\ Produced[2] = Str(Subcommand)
        /\ self.command = DefaultCommand =>
              /\ Produced[1] = Str("git subtree")
              /\ \A w \in DefaultCommandWords : Str(w) \notin Range(Produced)
        /\ Len(Produced) = 2 + Len(call.args) + Len(FlagPart)

C15_Witness ==
    /\ run.made
    /\ self.command = DefaultCommand
    /\ Len(run.argv) > 2

\* the current call uses only the parameters of the first definition
OnlyFirstDefinitionParams ==
    /\ Param("rejoin") = Bool(FALSE)
    /\ Param("squash") = Bool(FALSE)
    /\ Param("message") = None

\* what the body of the first definition issues for the current call
FirstDefinitionRequest ==
    IF call.op = "split"
    THEN split_first(call.args[1], call.args[2], Param("annotate"),
                     Param("branch"), Param("ignore_joins"), Param("onto"))
    ELSE push_first(call.args[1], call.args[2], call.args[3], Param("annotate"),
                    Param("branch"), Param("ignore_joins"), Param("onto"))

\* C16: a split or push call that leaves rejoin, squash and message at their
\* defaults hands over exactly the token sequence the body of the first
\* (shorter) definition would; the replacing definition adds no token.
C16_SecondDefinitionExtendsFirst ==
    (run.made /\ call.op \in {"split", "push"} /\ OnlyFirstDefinitionParams) =>
        run.argv = to_args(self, FirstDefinitionRequest.command,
                           FirstDefinitionRequest.options,
                           FirstDefinitionRequest.args)

C16_Witness ==
    /\ run.made
    /\ call.op = "push"
    /\ OnlyFirstDefinitionParams
    /\ Param("annotate") = Str("ann")
    /\ Param("ignore_joins") = Bool(TRUE)
    /\ run.child = "exited"

\* the flags of each operation in the order its body lists them in the
\* mapping it hands to __run, followed by the instance-level flags
ListedOrder(op) ==
    CASE op \in {"add", "merge"} -> <<"--squash", "-m">>
      [] op = "pull" -> <<"-m", "--squash">>
      [] op \in {"split", "push"} ->
            <<"--annotate", "-b", "--ignore-joins", "--onto", "--rejoin",
              "--squash", "-m">>
FullOrder == ListedOrder(call.op) \o <<"-q", "-d", "-P">>
Rank(tok) == CHOOSE i \in DOMAIN FullOrder : FullOrder[i] = tok.s
NamePositions == {j \in DOMAIN FlagPart : FlagPart[j] \in AllNameTokens}

TrueOptions == {o \in TheOptions : IsFlagValue(o[2])}

C19_InstanceUnchanged ==
    [][self' = self]_vars

C19_Witness ==
    /\ ncalls >= 2
    /\ call.op = "to_args"
    /\ self.quiet
    /\ self.prefix = Str("lib")

\* C20: every child process launched by an operation runs in the instance's
\* repository_path with its stdout and its stderr captured.
C20_CwdAndPipes ==
    run.made =>
        /\ run.cwd = self.repository_path
        /\ run.stdout = "PIPE"
        /\ run.stderr = "PIPE"
        /\ run.child = "exited" => run.captured = ToolOutput(run.argv, run.returncode)
        /\ stdout = <<>>

C20_Witness ==
    /\ run.made
    /\ run.child = "exited"
    /\ run.captured # <<>>
    /\ self.repository_path = "/other"

====
